---- MODULE Spec2Model ----
(***************************************************************************)
(* Location tracking and route recording engine of the FieldPro App        *)
(* component (src/App.tsx): the watchPosition callback (Kalman smoothing,  *)
(* proximity alerts with hysteresis, path sampling, dwell based stop       *)
(* detection) and the handlers that start, stop, save and discard a route. *)
(*                                                                         *)
(* Geometry.  Every coordinate lies on the meridian of the default start   *)
(* coordinate; a GeoLocation is its signed distance in metres, northwards, *)
(* from that coordinate.  On one meridian the haversine distance of        *)
(* calculateDistance is R * |dLat|, the absolute difference of the two     *)
(* offsets.  heading and speed are copied through by the code and never    *)
(* read by the engine; they are left out.                                  *)
(*                                                                         *)
(* React.  A useState value is modelled by its latest value, functional    *)
(* updaters applied in the order they were queued.  A useRef value changes *)
(* only where the code assigns .current.  The refs that mirror state       *)
(* (isTrackingRef, activeRouteRef) are assigned by passive effects: the    *)
(* app is mounted with createRoot (src/index.tsx:36), where the render and *)
(* the passive effects of a discrete event (click, submit) are flushed     *)
(* before the event returns, and those of any other update (a geolocation  *)
(* callback) are deferred to a later task, CommitEffects.               *)
(*                                                                         *)
(* Specifications.  Spec follows the tracking sessions (start, stop, save, *)
(* discard) over a fixed registry.  SpecSession follows one session for    *)
(* more fixes, far enough for a second stop.  SpecProximity leaves         *)
(* tracking off and edits the registry (saveShop, deleteArea) and the two  *)
(* radii between fixes, and loads the page again.  SpecFailure adds the    *)
(* failures of the position source to a session.  SpecFilter feeds the     *)
(* filter fixes of different accuracies.  SpecLabel edits the registry     *)
(* while a route is recorded.                                              *)
(***************************************************************************)
EXTENDS Integers, Sequences, FiniteSets, TLC

\* ------------------------------------------------------------- bounds
MaxUpdates == 4          \* position callbacks delivered in one run
MaxSessions == 2         \* routes started in one run
MaxSessionUpdates == 7   \* position callbacks delivered in a run of SpecSession
MaxProximityUpdates == 2 \* position callbacks delivered in a run of SpecProximity
MaxFailureUpdates == 3   \* position callbacks delivered in a run of SpecFailure
MaxFilterUpdates == 4    \* position callbacks delivered in a run of SpecFilter
MaxLabelUpdates == 3     \* position callbacks delivered in a run of SpecLabel

\* -------------------------------------------------- program constants
DefaultLat == 0          \* lat: 23.8103 (lng: 90.4125), the origin of the line
EnterRadius == 40
ExitRadius == 100
PathStep == 3
NoLastPointDisplacement == 100
DwellRadius == 15
DwellCount == 3
StopAreaRadius == 100
DefaultAccuracy == 10
ProcessNoise == 1        \* q = 0.000001, in units of VarUnit
VarUnit == 1000000       \* variance is counted in units of 1e-6
GainUnit == 1000         \* the gain k is kept to three decimals
DetectionMin == 1        \* min="1" of the detection slider
DetectionMax == 50       \* max="50"
DetectionStep == 1       \* no step attribute: the default step of a range input
NearbyMin == 10          \* min="10" of the nearby slider
NearbyMax == 500         \* max="500"
NearbyStep == 10         \* step="10"
DefaultDetectionRange == 1   \* saved ? Number(saved) : 1
DefaultNearbyRange == 20     \* saved ? Number(saved) : 20

Null == [null |-> TRUE]   \* null, for a value that is otherwise a record
Undefined == "undefined" \* an optional field that is not set
Now == "now"             \* Date.now(): the instant of the running handler
NoShop == [undefined |-> TRUE]   \* undefined, for a value that is otherwise a shop

\* ---------------------------------------------------------- the inputs
RawFixes == {0, 150}             \* pos.coords.latitude, as an offset in metres
Accuracies == {0, 10}            \* pos.coords.accuracy; 0 is falsy in accuracy || 10
InitialFixes == {2}              \* the fix of the mount effect's getCurrentPosition()
SessionFixes == {0, 80}          \* pos.coords.latitude in a run of SpecSession
ShopSites == {30, 200}           \* the latitude a saved shop is placed at
FilterAccuracies == {0, 5, 20}     \* pos.coords.accuracy in a run of SpecFilter
DetectionRanges == {0, 1, 50, 60}    \* positions asked of the detection slider
NearbyRanges == {5, 20, 500, 505}    \* positions asked of the nearby slider
DayLabels == {"Saturday"}
AreaLabels == {"Uttara Trip"}

\* the registries the app starts with (fieldpro_shops, fieldpro_areas)
INITIAL_SHOPS ==
  << [id |-> "s1", name |-> "Bhai Bhai Enterprise", ownerName |-> "Abul Hasnat",
      location |-> [lat |-> 30], areaId |-> "1"],
     [id |-> "s2", name |-> "Janata Store", ownerName |-> "Moklesur Rahman",
      location |-> [lat |-> 20], areaId |-> "2"] >>
INITIAL_AREAS == << [id |-> "1", name |-> "Kallyanpur", isArchived |-> FALSE],
                    [id |-> "2", name |-> "Majgram", isArchived |-> FALSE] >>
NewShopId == "s3"                \* the id generateId() hands to an added shop
ShopIds == {INITIAL_SHOPS[i].id : i \in 1..Len(INITIAL_SHOPS)} \cup {NewShopId}
AreaIds == {INITIAL_AREAS[i].id : i \in 1..Len(INITIAL_AREAS)}

VARIABLES
  shops,                 \* useState<Shop[]>
  areas,                 \* useState<Area[]>
  detectionRange,        \* useState<number>: the radius of atShop, in metres
  nearbyRange,           \* useState<number>: the radius of nearbyShops, in metres
  shopsRef,              \* useRef(activeShops)
  areasRef,              \* useRef(activeAreas)
  isTracking,            \* useState(false)
  activeRoute,           \* useState<SalesRoute | null>(null)
  isSavingRoute,         \* useState(false): the Save Your Route dialog is open
  routeSaveForm,         \* useState({ day: '', areaName: '' })
  routes,                \* useState<SalesRoute[]>: the saved routes, newest first
  currentLocation,       \* useState<GeoLocation | null>(null)
  alertInfo,             \* useState({ show, shopName, ownerName })
  kalmanStateRef,        \* useRef({ lat, lng, variance })
  alertedShopsRef,       \* useRef(new Set())
  lastStopCheckLocRef,   \* useRef<GeoLocation | null>(null): the dwell anchor
  staticTimeCounterRef,  \* useRef(0): the dwell counter
  isTrackingRef,         \* useRef(isTracking)
  activeRouteRef,        \* useRef(activeRoute)
  nextId,                \* the ids generateId() has handed out to routes
  updates,               \* position callbacks delivered so far
  emitted,               \* shop ids for which the last callback called setAlertInfo, in order
  enterLatch,            \* history, per shop id: "never" alerted, "entered", "exited" (a
                         \* reading > ExitRadius since its last ENTER) or "reentered"
  dwellStreak,           \* history: consecutive updates, processed for the active route
                         \* since its start, that were within DwellRadius of the anchor
  discardedIds,          \* history: the ids of the routes dropped by Discard
  rawFix,                \* history: the raw measurement of the last callback
  stopsAtAnchor,         \* history: the number of stops of the active route when its
                         \* dwell anchor was last set (at the start or by a reset)
  observedInside,        \* history, per shop id: an update has observed the shop below
                         \* EnterRadius and none has observed it above ExitRadius since
  failures,              \* history: the position failures reported so far, each with
                         \* what the run was doing when it was reported
  rawAccuracy            \* history: pos.coords.accuracy of the last callback, kept by
                         \* the runs of SpecFilter

vars == << isTracking, activeRoute, isSavingRoute, routeSaveForm, routes,
           currentLocation, alertInfo, kalmanStateRef, alertedShopsRef,
           lastStopCheckLocRef, staticTimeCounterRef, isTrackingRef,
           activeRouteRef, nextId, updates, emitted, enterLatch,
           dwellStreak, discardedIds, rawFix, stopsAtAnchor, observedInside,
           failures, rawAccuracy,
           shops, areas, detectionRange, nearbyRange, shopsRef, areasRef >>
registry == << shops, areas, shopsRef, areasRef >>
ranges == << detectionRange, nearbyRange >>

\* ------------------------------------------------------ pure functions
calculateDistance(loc1, loc2) ==
  IF loc1.lat >= loc2.lat THEN loc1.lat - loc2.lat ELSE loc2.lat - loc1.lat

\* k * d for a gain k in thousandths, rounded towards zero
GainTimes(k, d) == IF d >= 0 THEN (k * d) \div GainUnit ELSE 0 - ((k * (0 - d)) \div GainUnit)

\* applyKalmanFilter with the gain taken from the measurement variance
applyKalmanFilterGainComplement(state, newLat, accuracy) ==
  IF state.variance < 0
  THEN [state |-> [lat |-> newLat, variance |-> accuracy * accuracy * VarUnit],
        lat |-> newLat]
  ELSE LET r == accuracy * accuracy * VarUnit
           v == state.variance + ProcessNoise
           k == r \div ((v + r) \div GainUnit)
           lat == state.lat + GainTimes(k, newLat - state.lat)
       IN [state |-> [lat |-> lat, variance |-> v - (v \div GainUnit) * k],
           lat |-> lat]

\* applyKalmanFilter with variance = (1 + k) * variance
applyKalmanFilterVarianceGrows(state, newLat, accuracy) ==
  IF state.variance < 0
  THEN [state |-> [lat |-> newLat, variance |-> accuracy * accuracy * VarUnit],
        lat |-> newLat]
  ELSE LET r == accuracy * accuracy * VarUnit
           v == state.variance + ProcessNoise
           k == v \div ((v + r) \div GainUnit)
           lat == state.lat + GainTimes(k, newLat - state.lat)
       IN [state |-> [lat |-> lat, variance |-> v + (v \div GainUnit) * k],
           lat |-> lat]

\* applyKalmanFilter: the new filter state and the returned latitude
applyKalmanFilter(state, newLat, accuracy) ==
  IF state.variance < 0
  THEN [state |-> [lat |-> newLat, variance |-> accuracy * accuracy * VarUnit],
        lat |-> newLat]
  ELSE LET r == accuracy * accuracy * VarUnit
           v == state.variance + ProcessNoise
           k == v \div ((v + r) \div GainUnit)
           lat == state.lat + GainTimes(k, newLat - state.lat)
       IN [state |-> [lat |-> lat, variance |-> v - (v \div GainUnit) * k],
           lat |-> lat]

\* AlertLoop with one threshold: whatever is not inside EnterRadius is forgotten
RECURSIVE AlertLoopOneThreshold(_, _, _, _)
AlertLoopOneThreshold(i, newLoc, alerted, fired) ==
  IF i > Len(shopsRef) THEN [alerted |-> alerted, fired |-> fired]
  ELSE LET shop == shopsRef[i]
           dist == calculateDistance(newLoc, shop.location)
       IN IF dist < EnterRadius
          THEN IF shop.id \notin alerted
               THEN AlertLoopOneThreshold(i + 1, newLoc, alerted \cup {shop.id},
                                          Append(fired, i))
               ELSE AlertLoopOneThreshold(i + 1, newLoc, alerted, fired)
          ELSE AlertLoopOneThreshold(i + 1, newLoc, alerted \ {shop.id}, fired)

\* AlertLoop that never forgets a shop
RECURSIVE AlertLoopNoExit(_, _, _, _)
AlertLoopNoExit(i, newLoc, alerted, fired) ==
  IF i > Len(shopsRef) THEN [alerted |-> alerted, fired |-> fired]
  ELSE LET shop == shopsRef[i]
           dist == calculateDistance(newLoc, shop.location)
       IN IF dist < EnterRadius /\ shop.id \notin alerted
          THEN AlertLoopNoExit(i + 1, newLoc, alerted \cup {shop.id}, Append(fired, i))
          ELSE AlertLoopNoExit(i + 1, newLoc, alerted, fired)

\* the forEach over shopsRef of the callback: the alerted set and the ENTER
\* alerts (setAlertInfo calls) after shops i..Len(shopsRef)
RECURSIVE AlertLoop(_, _, _, _)
AlertLoop(i, newLoc, alerted, fired) ==
  IF i > Len(shopsRef) THEN [alerted |-> alerted, fired |-> fired]
  ELSE LET shop == shopsRef[i]
           dist == calculateDistance(newLoc, shop.location)
       IN IF dist < EnterRadius
          THEN IF shop.id \notin alerted
               THEN AlertLoop(i + 1, newLoc, alerted \cup {shop.id}, Append(fired, i))
               ELSE AlertLoop(i + 1, newLoc, alerted, fired)
          ELSE IF dist > ExitRadius
               THEN AlertLoop(i + 1, newLoc, alerted \ {shop.id}, fired)
               ELSE AlertLoop(i + 1, newLoc, alerted, fired)

\* shopsByD[0]: the index of the first shop at minimum distance (a stable sort)
NearestShop(newLoc) ==
  IF Len(shopsRef) = 0 THEN 0
  ELSE CHOOSE i \in 1..Len(shopsRef) :
         \A j \in 1..Len(shopsRef) :
           LET di == calculateDistance(newLoc, shopsRef[i].location)
               dj == calculateDistance(newLoc, shopsRef[j].location)
           IN di < dj \/ (di = dj /\ i <= j)

\* StopAreaName that looks at the first shop of the registry, not the nearest
StopAreaNameFirstShop(newLoc) ==
  LET near == IF Len(shopsRef) = 0 THEN 0 ELSE 1
  IN IF near # 0 /\ calculateDistance(newLoc, shopsRef[near].location) < StopAreaRadius
     THEN IF \E a \in 1..Len(areasRef) : areasRef[a].id = shopsRef[near].areaId
          THEN LET a == CHOOSE b \in 1..Len(areasRef) :
                          /\ areasRef[b].id = shopsRef[near].areaId
                          /\ \A c \in 1..(b - 1) : areasRef[c].id # shopsRef[near].areaId
               IN areasRef[a].name
          ELSE "Point"
     ELSE "Field Point"

\* the areaName of a stop emitted at newLoc
StopAreaName(newLoc) ==
  LET near == NearestShop(newLoc)
  IN IF near # 0 /\ calculateDistance(newLoc, shopsRef[near].location) < StopAreaRadius
     THEN IF \E a \in 1..Len(areasRef) : areasRef[a].id = shopsRef[near].areaId
          THEN LET a == CHOOSE b \in 1..Len(areasRef) :
                          /\ areasRef[b].id = shopsRef[near].areaId
                          /\ \A c \in 1..(b - 1) : areasRef[c].id # shopsRef[near].areaId
               IN areasRef[a].name
          ELSE "Point"
     ELSE "Field Point"

\* AppendPath that puts the new point first
AppendPathFront(prev, newLoc) ==
  IF prev # Null THEN [prev EXCEPT !.path = << newLoc >> \o @] ELSE Null

\* prev => prev ? ({ ...prev, path: [...prev.path, newLoc] }) : null
AppendPath(prev, newLoc) ==
  IF prev # Null THEN [prev EXCEPT !.path = Append(@, newLoc)] ELSE Null

\* AppendStop that numbers the stop by the stops activeRouteRef holds
AppendStopRefNumber(prev, newLoc, areaName) ==
  IF prev = Null THEN Null
  ELSE [prev EXCEPT !.stops = Append(@, [location |-> newLoc, areaName |-> areaName,
                                         stopNumber |-> Len(activeRouteRef.stops) + 1,
                                         timestamp |-> Now])]

\* prev => { if (!prev) return null; ... stops: [...prev.stops, newStop] }
AppendStop(prev, newLoc, areaName) ==
  IF prev = Null THEN Null
  ELSE [prev EXCEPT !.stops = Append(@, [location |-> newLoc, areaName |-> areaName,
                                         stopNumber |-> Len(prev.stops) + 1,
                                         timestamp |-> Now])]

\* if (displacement >= 3) setActiveRoute(append newLoc)
SamplePath(route, routeRef, newLoc) ==
  LET displacement == IF Len(routeRef.path) > 0
                      THEN calculateDistance(newLoc, routeRef.path[Len(routeRef.path)])
                      ELSE NoLastPointDisplacement
  IN IF displacement >= PathStep THEN AppendPath(route, newLoc) ELSE route

\* DetectStop that starts the count again after a stop
DetectStopResetsCounter(route, counter, anchor, newLoc) ==
  IF anchor # Null
  THEN IF calculateDistance(newLoc, anchor) < DwellRadius
       THEN IF counter + 1 = DwellCount
            THEN [route |-> AppendStop(route, newLoc, StopAreaName(newLoc)),
                  counter |-> 0, anchor |-> anchor]
            ELSE [route |-> route, counter |-> counter + 1, anchor |-> anchor]
       ELSE [route |-> route, counter |-> 0, anchor |-> newLoc]
  ELSE [route |-> route, counter |-> counter, anchor |-> newLoc]

\* DetectStop with >= DwellCount for === 3: a stop at every update of a long stay
DetectStopEveryUpdate(route, counter, anchor, newLoc) ==
  IF anchor # Null
  THEN IF calculateDistance(newLoc, anchor) < DwellRadius
       THEN [route |-> IF counter + 1 >= DwellCount
                       THEN AppendStop(route, newLoc, StopAreaName(newLoc))
                       ELSE route,
             counter |-> counter + 1, anchor |-> anchor]
       ELSE [route |-> route, counter |-> 0, anchor |-> newLoc]
  ELSE [route |-> route, counter |-> counter, anchor |-> newLoc]

\* DetectStop that leaves the anchor where it was when the count is reset
DetectStopKeepsAnchor(route, counter, anchor, newLoc) ==
  IF anchor # Null
  THEN IF calculateDistance(newLoc, anchor) < DwellRadius
       THEN [route |-> IF counter + 1 = DwellCount
                       THEN AppendStop(route, newLoc, StopAreaName(newLoc))
                       ELSE route,
             counter |-> counter + 1, anchor |-> anchor]
       ELSE [route |-> route, counter |-> 0, anchor |-> anchor]
  ELSE [route |-> route, counter |-> counter, anchor |-> newLoc]

\* the stop detection of the callback: the route, the dwell counter and the anchor
DetectStop(route, counter, anchor, newLoc) ==
  IF anchor # Null
  THEN IF calculateDistance(newLoc, anchor) < DwellRadius
       THEN [route |-> IF counter + 1 = DwellCount
                       THEN AppendStop(route, newLoc, StopAreaName(newLoc))
                       ELSE route,
             counter |-> counter + 1, anchor |-> anchor]
       ELSE [route |-> route, counter |-> 0, anchor |-> newLoc]
  ELSE [route |-> route, counter |-> counter, anchor |-> newLoc]

\* RecordingGuard without the isTrackingRef test
RecordingGuardRouteOnly(trackingRef, routeRef) == routeRef # Null

\* if (isTrackingRef.current && activeRouteRef.current)
RecordingGuard(trackingRef, routeRef) == trackingRef /\ routeRef # Null

\* StartGuard that starts whatever isTracking is
StartGuardAlways(tracking) == TRUE

\* toggleTracking takes its start branch (if (!isTracking))
StartGuard(tracking) == ~tracking

\* StartLocation that ignores the current location
StartLocationDefault(loc) == [lat |-> DefaultLat]

\* const start = currentLocation || { lat: 23.8103, lng: 90.4125 }
StartLocation(loc) == IF loc # Null THEN loc ELSE [lat |-> DefaultLat]

\* KalmanReset that keeps the variance the filter has reached
KalmanResetKeepsVariance(start) ==
  [lat |-> start.lat, variance |-> kalmanStateRef.variance]

\* kalmanStateRef.current = { lat: start.lat, lng: start.lng, variance: -1 }
KalmanReset(start) == [lat |-> start.lat, variance |-> -1]

NewRoute(id, start) ==
  [id |-> id, areaId |-> "General", path |-> <<start>>, stops |-> <<>>,
   startTime |-> Now, endTime |-> Undefined, day |-> Undefined,
   customAreaName |-> Undefined, isArchived |-> FALSE]

\* FinalRoute without the endTime stamp
FinalRouteNoEndTime(route, form) ==
  [route EXCEPT !.day = form.day, !.customAreaName = form.areaName,
                !.isArchived = FALSE]

\* finalRoute of confirmSaveRoute
FinalRoute(route, form) ==
  [route EXCEPT !.day = form.day, !.customAreaName = form.areaName,
                !.endTime = Now, !.isArchived = FALSE]

\* areas.filter(a => !a.isArchived)
ActiveAreas(as) == SelectSeq(as, LAMBDA a : ~a.isArchived)

\* shops.filter(s => !s.isArchived && activeAreas.some(a => a.id === s.areaId));
\* no handler of the app archives a shop, so isArchived is left out of a shop
ActiveShops(ss, as) ==
  SelectSeq(ss, LAMBDA s : \E i \in 1..Len(ActiveAreas(as)) : ActiveAreas(as)[i].id = s.areaId)

\* activeShops.map(shop => ({ ...shop, distance })), [] without a location
ShopsWithDistances(active, loc) ==
  IF loc = Null THEN << >>
  ELSE [i \in 1..Len(active) |->
          [id |-> active[i].id, name |-> active[i].name,
           ownerName |-> active[i].ownerName, location |-> active[i].location,
           areaId |-> active[i].areaId,
           distance |-> calculateDistance(loc, active[i].location)]]

\* sort((a, b) => a.distance - b.distance): ascending and stable (ES2019), each
\* element put behind those of the sorted front that are not farther than it
RECURSIVE SortByDistance(_)
SortByDistance(seq) ==
  IF Len(seq) = 0 THEN << >>
  ELSE LET front == SortByDistance(SubSeq(seq, 1, Len(seq) - 1))
           x == seq[Len(seq)]
           k == Cardinality({n \in 1..Len(front) : front[n].distance <= x.distance})
       IN SubSeq(front, 1, k) \o << x >> \o SubSeq(front, k + 1, Len(front))

\* NearbyShops with < for <=
NearbyShopsStrict(active, loc, range) ==
  SortByDistance(SelectSeq(ShopsWithDistances(active, loc),
                           LAMBDA shop : shop.distance < range))

\* the nearbyShops memo
NearbyShops(active, loc, range) ==
  SortByDistance(SelectSeq(ShopsWithDistances(active, loc),
                           LAMBDA shop : shop.distance <= range))

\* AtShop that takes the last shop of the sorted list that is in range
AtShopLast(active, loc, range) ==
  LET withinRange == SelectSeq(ShopsWithDistances(active, loc),
                               LAMBDA shop : shop.distance <= range)
  IN IF Len(withinRange) = 0 THEN NoShop
     ELSE SortByDistance(withinRange)[Len(withinRange)]

\* the atShop memo
AtShop(active, loc, range) ==
  LET withinRange == SelectSeq(ShopsWithDistances(active, loc),
                               LAMBDA shop : shop.distance <= range)
  IN IF Len(withinRange) = 0 THEN NoShop ELSE SortByDistance(withinRange)[1]

\* --------------------------------------------------------------- Init
\* String(n) of a non-negative integer: its decimal digits
RECURSIVE String(_)
String(n) == IF n < 10 THEN << n >> ELSE Append(String(n \div 10), n % 10)

\* Number(s) of a string of decimal digits
RECURSIVE Number(_)
Number(s) ==
  IF Len(s) = 0 THEN 0
  ELSE 10 * Number(SubSeq(s, 1, Len(s) - 1)) + s[Len(s)]

\* the initialiser of a radius: saved ? Number(saved) : default, where saved is
\* localStorage.getItem(key), null (the empty sequence here) before the first save
LoadRange(saved, default) == IF saved # << >> THEN Number(saved) ELSE default

\* a range input that hands on whatever position is asked of it
RangeInputValueRaw(requested, min, max, step) == requested

\* e.target.value of <input type="range" min max step>: the position asked for,
\* brought into [min, max] and onto the nearest step counted from min
RangeInputValue(requested, min, max, step) ==
  LET clamped == IF requested < min THEN min
                 ELSE IF requested > max THEN max ELSE requested
      snapped == min + ((clamped - min + step \div 2) \div step) * step
  IN IF snapped > max THEN snapped - step ELSE snapped

Init ==
  /\ shops = INITIAL_SHOPS
  /\ areas = INITIAL_AREAS
  /\ detectionRange = LoadRange(<< >>, DefaultDetectionRange)
  /\ nearbyRange = LoadRange(<< >>, DefaultNearbyRange)
  /\ shopsRef = ActiveShops(INITIAL_SHOPS, INITIAL_AREAS)
  /\ areasRef = ActiveAreas(INITIAL_AREAS)
  /\ rawFix = Null
  /\ stopsAtAnchor = 0
  /\ observedInside = [s \in ShopIds |-> FALSE]
  /\ isTracking = FALSE
  /\ activeRoute = Null
  /\ isSavingRoute = FALSE
  /\ routeSaveForm = [day |-> "", areaName |-> ""]
  /\ routes = <<>>
  /\ currentLocation = Null
  /\ alertInfo = [show |-> FALSE, shopName |-> "", ownerName |-> ""]
  /\ kalmanStateRef = [lat |-> 0, variance |-> -1]
  /\ alertedShopsRef = {}
  /\ lastStopCheckLocRef = Null
  /\ staticTimeCounterRef = 0
  /\ isTrackingRef = FALSE
  /\ activeRouteRef = Null
  /\ nextId = 1
  /\ updates = 0
  /\ emitted = <<>>
  /\ enterLatch = [s \in ShopIds |-> "never"]
  /\ dwellStreak = 0
  /\ discardedIds = {}
  /\ failures = {}
  /\ rawAccuracy = Null

\* ------------------------------------------------------------ actions
\* the mount effect: getCurrentPosition().then(setCurrentLocation); the request
\* is issued at mount and is taken to settle before the first watch fix (a rejected
\* request only logs, and leaves every variable as it is)
InitialFix(lat) ==
  /\ currentLocation = Null /\ updates = 0
  /\ \A f \in failures : f.kind # "initial"
  /\ currentLocation' = [lat |-> lat]
  /\ UNCHANGED << isTracking, activeRoute, isSavingRoute, routeSaveForm, routes,
                  alertInfo, kalmanStateRef, alertedShopsRef, lastStopCheckLocRef,
                  staticTimeCounterRef, isTrackingRef, activeRouteRef, nextId,
                  updates, emitted, enterLatch, dwellStreak, discardedIds,
                  rawFix, stopsAtAnchor, observedInside, failures,
                  rawAccuracy, registry, ranges >>

\* the success callback of navigator.geolocation.watchPosition
PositionCallback(lat, accuracy) ==
  /\ LET smoothed == applyKalmanFilter(kalmanStateRef, lat,
                                       IF accuracy # 0 THEN accuracy ELSE DefaultAccuracy)
         newLoc == [lat |-> smoothed.lat]
         alerts == AlertLoop(1, newLoc, alertedShopsRef, <<>>)
         sampled == SamplePath(activeRoute, activeRouteRef, newLoc)
         dwell == DetectStop(sampled, staticTimeCounterRef, lastStopCheckLocRef, newLoc)
     IN /\ kalmanStateRef' = smoothed.state
        /\ currentLocation' = newLoc
        /\ alertedShopsRef' = alerts.alerted
        /\ emitted' = [n \in 1..Len(alerts.fired) |-> shopsRef[alerts.fired[n]].id]
        /\ alertInfo' = IF Len(alerts.fired) = 0 THEN alertInfo
                        ELSE LET shop == shopsRef[alerts.fired[Len(alerts.fired)]]
                             IN [show |-> TRUE, shopName |-> shop.name,
                                 ownerName |-> shop.ownerName]
        /\ enterLatch' = [s \in ShopIds |->
             IF \A j \in 1..Len(shopsRef) : shopsRef[j].id # s THEN enterLatch[s]
             ELSE
             LET i == CHOOSE j \in 1..Len(shopsRef) : shopsRef[j].id = s
             IN IF calculateDistance(newLoc, shopsRef[i].location) > ExitRadius
                THEN IF enterLatch[s] = "never" THEN "never" ELSE "exited"
                ELSE IF \E n \in 1..Len(alerts.fired) : alerts.fired[n] = i
                     THEN IF enterLatch[s] = "never" THEN "entered" ELSE "reentered"
                     ELSE enterLatch[s]]
        /\ observedInside' = [s \in ShopIds |->
             IF \E j \in 1..Len(shopsRef) :
                  /\ shopsRef[j].id = s
                  /\ calculateDistance(newLoc, shopsRef[j].location) < EnterRadius
             THEN TRUE
             ELSE IF \E j \in 1..Len(shopsRef) :
                       /\ shopsRef[j].id = s
                       /\ calculateDistance(newLoc, shopsRef[j].location) > ExitRadius
                  THEN FALSE
                  ELSE observedInside[s]]
        /\ rawFix' = [lat |-> lat]
        /\ stopsAtAnchor' =
             IF isTracking /\ activeRoute # Null
                /\ calculateDistance(newLoc, lastStopCheckLocRef) >= DwellRadius
             THEN Len(activeRoute.stops) ELSE stopsAtAnchor
        /\ dwellStreak' = IF isTracking /\ activeRoute # Null
                          THEN IF calculateDistance(newLoc, lastStopCheckLocRef) < DwellRadius
                               THEN dwellStreak + 1 ELSE 0
                          ELSE dwellStreak
        /\ IF RecordingGuard(isTrackingRef, activeRouteRef)
           THEN /\ activeRoute' = dwell.route
                /\ staticTimeCounterRef' = dwell.counter
                /\ lastStopCheckLocRef' = dwell.anchor
           ELSE UNCHANGED << activeRoute, staticTimeCounterRef, lastStopCheckLocRef >>
  /\ updates' = updates + 1
  /\ UNCHANGED << isTracking, isSavingRoute, routeSaveForm, routes, isTrackingRef,
                  activeRouteRef, nextId, discardedIds, registry, ranges, failures >>

\* navigator.geolocation.watchPosition: the fixes the subscription delivers
WatchPosition(lat, accuracy) ==
  /\ updates < MaxUpdates
  /\ PositionCallback(lat, accuracy)
  /\ UNCHANGED rawAccuracy

\* the error callback of watchPosition: console.error('Watch error:', err)
WatchError == UNCHANGED vars

\* the passive effects that copy state into the refs, run after a deferred render
CommitEffects ==
  /\ << isTrackingRef, activeRouteRef >> # << isTracking, activeRoute >>
  /\ isTrackingRef' = isTracking
  /\ activeRouteRef' = activeRoute
  /\ UNCHANGED << isTracking, activeRoute, isSavingRoute, routeSaveForm, routes,
                  currentLocation, alertInfo, kalmanStateRef, alertedShopsRef,
                  lastStopCheckLocRef, staticTimeCounterRef, nextId,
                  updates, emitted, enterLatch, dwellStreak, discardedIds,
                  rawFix, stopsAtAnchor, observedInside, failures,
                  rawAccuracy, registry, ranges >>

\* ToggleTracking that empties alertedShopsRef when a route starts
ToggleTrackingClearsAlerts ==
  IF StartGuard(isTracking)
  THEN LET start == StartLocation(currentLocation)
       IN /\ nextId <= MaxSessions
          /\ kalmanStateRef' = KalmanReset(start)
          /\ activeRoute' = NewRoute(nextId, start)
          /\ nextId' = nextId + 1
          /\ isTracking' = TRUE
          /\ staticTimeCounterRef' = 0
          /\ lastStopCheckLocRef' = start
          /\ isTrackingRef' = TRUE
          /\ activeRouteRef' = activeRoute'
          /\ dwellStreak' = 0
          /\ stopsAtAnchor' = 0
          /\ alertedShopsRef' = {}
          /\ UNCHANGED << isSavingRoute, routeSaveForm, routes, currentLocation,
                          alertInfo, updates, emitted, enterLatch,
                          discardedIds, rawFix, observedInside, failures,
                  rawAccuracy, registry, ranges >>
  ELSE /\ isSavingRoute' = TRUE
       /\ routeSaveForm' = [day |-> "", areaName |-> ""]
       /\ isTracking' = FALSE
       /\ isTrackingRef' = FALSE
       /\ activeRouteRef' = activeRoute
       /\ UNCHANGED << activeRoute, routes, currentLocation, alertInfo, kalmanStateRef,
                       alertedShopsRef, lastStopCheckLocRef, staticTimeCounterRef,
                       nextId, updates, emitted, enterLatch, dwellStreak, discardedIds,
                       rawFix, stopsAtAnchor, observedInside, failures,
                  rawAccuracy, registry, ranges >>

\* toggleTracking, the click handler of the header's tracking button
ToggleTracking ==
  IF StartGuard(isTracking)
  THEN LET start == StartLocation(currentLocation)
       IN /\ nextId <= MaxSessions
          /\ kalmanStateRef' = KalmanReset(start)
          /\ activeRoute' = NewRoute(nextId, start)
          /\ nextId' = nextId + 1
          /\ isTracking' = TRUE
          /\ staticTimeCounterRef' = 0
          /\ lastStopCheckLocRef' = start
          /\ isTrackingRef' = TRUE
          /\ activeRouteRef' = activeRoute'
          /\ dwellStreak' = 0
          /\ stopsAtAnchor' = 0
          /\ UNCHANGED << isSavingRoute, routeSaveForm, routes, currentLocation,
                          alertInfo, alertedShopsRef, updates, emitted, enterLatch,
                          discardedIds, rawFix, observedInside, failures,
                  rawAccuracy, registry, ranges >>
  ELSE /\ isSavingRoute' = TRUE
       /\ routeSaveForm' = [day |-> "", areaName |-> ""]
       /\ isTracking' = FALSE
       /\ isTrackingRef' = FALSE
       /\ activeRouteRef' = activeRoute
       /\ UNCHANGED << activeRoute, routes, currentLocation, alertInfo, kalmanStateRef,
                       alertedShopsRef, lastStopCheckLocRef, staticTimeCounterRef,
                       nextId, updates, emitted, enterLatch, dwellStreak, discardedIds,
                       rawFix, stopsAtAnchor, observedInside, failures,
                  rawAccuracy, registry, ranges >>

\* the onChange handlers of the two inputs of the Save Your Route dialog
EditRouteSaveForm(day, areaName) ==
  /\ isSavingRoute
  /\ routeSaveForm # [day |-> day, areaName |-> areaName]
  /\ routeSaveForm' = [day |-> day, areaName |-> areaName]
  /\ isTrackingRef' = isTracking
  /\ activeRouteRef' = activeRoute
  /\ UNCHANGED << isTracking, activeRoute, isSavingRoute, routes, currentLocation,
                  alertInfo, kalmanStateRef, alertedShopsRef, lastStopCheckLocRef,
                  staticTimeCounterRef, nextId, updates, emitted,
                  enterLatch, dwellStreak, discardedIds,
                  rawFix, stopsAtAnchor, observedInside, failures,
                  rawAccuracy, registry, ranges >>

\* ConfirmSaveRoute that keeps the saved route active and the dialog open
ConfirmSaveRouteKeepsActive ==
  /\ isSavingRoute
  /\ routeSaveForm.day # "" /\ routeSaveForm.areaName # ""
  /\ IF activeRoute = Null
     THEN UNCHANGED routes
     ELSE routes' = << FinalRoute(activeRoute, routeSaveForm) >> \o routes
  /\ isTrackingRef' = isTracking
  /\ activeRouteRef' = activeRoute
  /\ UNCHANGED << isTracking, activeRoute, isSavingRoute, routeSaveForm,
                  currentLocation, alertInfo,
                  kalmanStateRef, alertedShopsRef, lastStopCheckLocRef,
                  staticTimeCounterRef, nextId, updates, emitted,
                  enterLatch, dwellStreak, discardedIds,
                  rawFix, stopsAtAnchor, observedInside, failures,
                  rawAccuracy, registry, ranges >>

\* confirmSaveRoute, the submit handler of the dialog (both inputs are required)
ConfirmSaveRoute ==
  /\ isSavingRoute
  /\ routeSaveForm.day # "" /\ routeSaveForm.areaName # ""
  /\ IF activeRoute = Null
     THEN UNCHANGED << routes, activeRoute, isSavingRoute >>
     ELSE /\ routes' = << FinalRoute(activeRoute, routeSaveForm) >> \o routes
          /\ activeRoute' = Null
          /\ isSavingRoute' = FALSE
  /\ isTrackingRef' = isTracking
  /\ activeRouteRef' = activeRoute'
  /\ UNCHANGED << isTracking, routeSaveForm, currentLocation, alertInfo,
                  kalmanStateRef, alertedShopsRef, lastStopCheckLocRef,
                  staticTimeCounterRef, nextId, updates, emitted,
                  enterLatch, dwellStreak, discardedIds,
                  rawFix, stopsAtAnchor, observedInside, failures,
                  rawAccuracy, registry, ranges >>

\* DiscardRoute that keeps the dropped route in the saved list
DiscardRouteKeepsRoute ==
  /\ isSavingRoute
  /\ isSavingRoute' = FALSE
  /\ activeRoute' = Null
  /\ discardedIds' = IF activeRoute # Null THEN discardedIds \cup {activeRoute.id}
                     ELSE discardedIds
  /\ routes' = IF activeRoute # Null THEN << activeRoute >> \o routes ELSE routes
  /\ isTrackingRef' = isTracking
  /\ activeRouteRef' = Null
  /\ UNCHANGED << isTracking, routeSaveForm, currentLocation, alertInfo,
                  kalmanStateRef, alertedShopsRef, lastStopCheckLocRef,
                  staticTimeCounterRef, nextId, updates, emitted,
                  enterLatch, dwellStreak,
                  rawFix, stopsAtAnchor, observedInside, failures,
                  rawAccuracy, registry, ranges >>

\* the Discard button and the close button of the dialog
DiscardRoute ==
  /\ isSavingRoute
  /\ isSavingRoute' = FALSE
  /\ activeRoute' = Null
  /\ discardedIds' = IF activeRoute # Null THEN discardedIds \cup {activeRoute.id}
                     ELSE discardedIds
  /\ isTrackingRef' = isTracking
  /\ activeRouteRef' = Null
  /\ UNCHANGED << isTracking, routeSaveForm, routes, currentLocation, alertInfo,
                  kalmanStateRef, alertedShopsRef, lastStopCheckLocRef,
                  staticTimeCounterRef, nextId, updates, emitted,
                  enterLatch, dwellStreak,
                  rawFix, stopsAtAnchor, observedInside, failures,
                  rawAccuracy, registry, ranges >>

Next ==
  \/ \E lat \in InitialFixes : InitialFix(lat)
  \/ \E lat \in RawFixes, accuracy \in Accuracies : WatchPosition(lat, accuracy)
  \/ WatchError
  \/ CommitEffects
  \/ ToggleTracking
  \/ \E day \in DayLabels, areaName \in AreaLabels : EditRouteSaveForm(day, areaName)
  \/ ConfirmSaveRoute
  \/ DiscardRoute

Spec == Init /\ [][Next]_vars

\* ------------------------------------- the registry and the two radii
activeAreas == ActiveAreas(areas)
activeShops == ActiveShops(shops, areas)
nearbyShops == NearbyShops(activeShops, currentLocation, nearbyRange)
atShop == AtShop(activeShops, currentLocation, detectionRange)

\* saveShop, the submit handler of the shop form: an edit of the shop with this
\* id that places it at lat, or a new shop at lat when no shop has the id
SaveShop(id, lat) ==
  /\ IF \E i \in 1..Len(shops) : shops[i].id = id
     THEN /\ \E i \in 1..Len(shops) : shops[i].id = id /\ shops[i].location # [lat |-> lat]
          /\ shops' = [i \in 1..Len(shops) |->
                         IF shops[i].id = id
                         THEN [shops[i] EXCEPT !.location = [lat |-> lat]]
                         ELSE shops[i]]
     ELSE /\ id = NewShopId
          /\ shops' = << [id |-> id, name |-> "Mayer Doa General Store",
                          ownerName |-> "Sujon Ahmed", location |-> [lat |-> lat],
                          areaId |-> IF Len(activeAreas) > 0 THEN activeAreas[1].id
                                     ELSE ""] >> \o shops
  /\ shopsRef' = ActiveShops(shops', areas)
  /\ isTrackingRef' = isTracking
  /\ activeRouteRef' = activeRoute
  /\ UNCHANGED << areas, areasRef, ranges, isTracking, activeRoute, isSavingRoute,
                  routeSaveForm, routes, currentLocation, alertInfo, kalmanStateRef,
                  alertedShopsRef, lastStopCheckLocRef, staticTimeCounterRef, nextId,
                  updates, emitted, enterLatch, dwellStreak, discardedIds, rawFix,
                  stopsAtAnchor, observedInside, failures,
                  rawAccuracy >>

\* deleteArea, confirmed: the area is archived and its shops leave activeShops
DeleteArea(id) ==
  /\ \E i \in 1..Len(activeAreas) : activeAreas[i].id = id
  /\ areas' = [i \in 1..Len(areas) |->
                 IF areas[i].id = id THEN [areas[i] EXCEPT !.isArchived = TRUE]
                 ELSE areas[i]]
  /\ areasRef' = ActiveAreas(areas')
  /\ shopsRef' = ActiveShops(shops, areas')
  /\ isTrackingRef' = isTracking
  /\ activeRouteRef' = activeRoute
  /\ UNCHANGED << shops, ranges, isTracking, activeRoute, isSavingRoute,
                  routeSaveForm, routes, currentLocation, alertInfo, kalmanStateRef,
                  alertedShopsRef, lastStopCheckLocRef, staticTimeCounterRef, nextId,
                  updates, emitted, enterLatch, dwellStreak, discardedIds, rawFix,
                  stopsAtAnchor, observedInside, failures,
                  rawAccuracy >>

\* the onChange handler of the detection slider:
\* setDetectionRange(Number(e.target.value))
SetDetectionRange(requested) ==
  /\ LET value == Number(String(RangeInputValue(requested, DetectionMin, DetectionMax,
                                                DetectionStep)))
     IN /\ value # detectionRange
        /\ detectionRange' = value
  /\ isTrackingRef' = isTracking
  /\ activeRouteRef' = activeRoute
  /\ UNCHANGED << registry, nearbyRange, isTracking, activeRoute, isSavingRoute,
                  routeSaveForm, routes, currentLocation, alertInfo, kalmanStateRef,
                  alertedShopsRef, lastStopCheckLocRef, staticTimeCounterRef, nextId,
                  updates, emitted, enterLatch, dwellStreak, discardedIds, rawFix,
                  stopsAtAnchor, observedInside, failures,
                  rawAccuracy >>

\* the onChange handler of the nearby slider: setNearbyRange(Number(e.target.value))
SetNearbyRange(requested) ==
  /\ LET value == Number(String(RangeInputValue(requested, NearbyMin, NearbyMax,
                                                NearbyStep)))
     IN /\ value # nearbyRange
        /\ nearbyRange' = value
  /\ isTrackingRef' = isTracking
  /\ activeRouteRef' = activeRoute
  /\ UNCHANGED << registry, detectionRange, isTracking, activeRoute, isSavingRoute,
                  routeSaveForm, routes, currentLocation, alertInfo, kalmanStateRef,
                  alertedShopsRef, lastStopCheckLocRef, staticTimeCounterRef, nextId,
                  updates, emitted, enterLatch, dwellStreak, discardedIds, rawFix,
                  stopsAtAnchor, observedInside, failures,
                  rawAccuracy >>

\* the page is loaded again: every useState and useRef starts from its
\* initialiser, and the initialisers of shops, areas, routes and the two radii
\* read what the persistence effect (lines 590-600) wrote after the last change
Reload ==
  /\ detectionRange' = LoadRange(String(detectionRange), DefaultDetectionRange)
  /\ nearbyRange' = LoadRange(String(nearbyRange), DefaultNearbyRange)
  /\ shopsRef' = ActiveShops(shops, areas)
  /\ areasRef' = ActiveAreas(areas)
  /\ isTracking' = FALSE
  /\ activeRoute' = Null
  /\ isSavingRoute' = FALSE
  /\ routeSaveForm' = [day |-> "", areaName |-> ""]
  /\ currentLocation' = Null
  /\ alertInfo' = [show |-> FALSE, shopName |-> "", ownerName |-> ""]
  /\ kalmanStateRef' = [lat |-> 0, variance |-> -1]
  /\ alertedShopsRef' = {}
  /\ lastStopCheckLocRef' = Null
  /\ staticTimeCounterRef' = 0
  /\ isTrackingRef' = FALSE
  /\ activeRouteRef' = Null
  /\ emitted' = << >>
  /\ enterLatch' = [s \in ShopIds |-> "never"]
  /\ dwellStreak' = 0
  /\ rawFix' = Null
  /\ stopsAtAnchor' = 0
  /\ observedInside' = [s \in ShopIds |-> FALSE]
  /\ rawAccuracy' = Null
  /\ UNCHANGED << shops, areas, routes, nextId, updates, discardedIds, failures >>

\* the watch of a run that edits the registry and the radii between fixes
ProximityWatch(lat, accuracy) ==
  /\ updates < MaxProximityUpdates
  /\ PositionCallback(lat, accuracy)
  /\ UNCHANGED rawAccuracy

NextProximity ==
  \/ \E lat \in InitialFixes : InitialFix(lat)
  \/ \E lat \in RawFixes, accuracy \in Accuracies : ProximityWatch(lat, accuracy)
  \/ \E id \in ShopIds, lat \in ShopSites : SaveShop(id, lat)
  \/ \E id \in AreaIds : DeleteArea(id)
  \/ \E value \in DetectionRanges : SetDetectionRange(value)
  \/ \E value \in NearbyRanges : SetNearbyRange(value)
  \/ Reload

SpecProximity == Init /\ [][NextProximity]_vars

\* ------------------------------------------- one long recording session
\* the watch of a run that follows a single route for MaxSessionUpdates fixes
SessionWatch(lat, accuracy) ==
  /\ updates < MaxSessionUpdates
  /\ PositionCallback(lat, accuracy)
  /\ UNCHANGED rawAccuracy

\* the tracking button, pressed to start the run's one route and to stop it
SessionToggle ==
  /\ isTracking \/ nextId = 1
  /\ ToggleTracking

NextSession ==
  \/ \E lat \in InitialFixes : InitialFix(lat)
  \/ \E lat \in SessionFixes, accuracy \in Accuracies : SessionWatch(lat, accuracy)
  \/ CommitEffects
  \/ SessionToggle

SpecSession == Init /\ [][NextSession]_vars

\* ------------------------------------- a session with registry changes
\* the shops whose location is edited in a run of SpecLabel
EditedShopIds == {INITIAL_SHOPS[i].id : i \in 1..Len(INITIAL_SHOPS)}

\* the watch of a run that edits the registry while a route is recorded
LabelWatch(lat, accuracy) ==
  /\ updates < MaxLabelUpdates
  /\ PositionCallback(lat, accuracy)
  /\ UNCHANGED rawAccuracy

NextLabel ==
  \/ \E lat \in RawFixes, accuracy \in Accuracies : LabelWatch(lat, accuracy)
  \/ CommitEffects
  \/ SessionToggle
  \/ \E id \in EditedShopIds, lat \in ShopSites : SaveShop(id, lat)
  \/ \E id \in AreaIds : DeleteArea(id)

SpecLabel == Init /\ [][NextLabel]_vars

\* ------------------------------------------------- the position filter
\* pos.coords.accuracy || 10: the accuracy the callback passes to the filter
EffectiveAccuracy(accuracy) == IF accuracy # 0 THEN accuracy ELSE DefaultAccuracy

\* the watch of a run that feeds the filter fixes of different accuracies; the
\* history keeps the reported accuracy and whether every update of the filter
\* since it was last uninitialized had the same accuracy
FilterWatch(lat, accuracy) ==
  /\ updates < MaxFilterUpdates
  /\ PositionCallback(lat, accuracy)
  /\ rawAccuracy' =
       [accuracy |-> accuracy,
        steady |-> \/ kalmanStateRef.variance < 0
                   \/ /\ rawAccuracy.steady
                      /\ EffectiveAccuracy(rawAccuracy.accuracy)
                           = EffectiveAccuracy(accuracy)]

NextFilter ==
  \/ \E lat \in RawFixes, accuracy \in FilterAccuracies : FilterWatch(lat, accuracy)
  \/ CommitEffects
  \/ SessionToggle

SpecFilter == Init /\ [][NextFilter]_vars

\* ------------------------------------------------- position failures
\* the kinds of failure: the error callback of watchPosition (a timeout after
\* 10 s included) and the rejection of the mount effect's getCurrentPosition()
FailureKinds == {"watch", "initial"}

\* PositionError that ends the recording
PositionErrorStopsTracking(kind) ==
  /\ \A f \in failures : f.kind # kind
  /\ kind = "initial" => (currentLocation = Null /\ updates = 0)
  /\ failures' = failures \cup {[kind |-> kind, updates |-> updates,
                                 recording |-> isTracking /\ activeRoute # Null]}
  /\ isTracking' = FALSE
  /\ isTrackingRef' = FALSE
  /\ UNCHANGED << activeRoute, isSavingRoute, routeSaveForm, routes,
                  currentLocation, alertInfo, kalmanStateRef, alertedShopsRef,
                  lastStopCheckLocRef, staticTimeCounterRef, activeRouteRef,
                  nextId, updates, emitted, enterLatch, dwellStreak, discardedIds,
                  rawFix, stopsAtAnchor, observedInside, rawAccuracy, registry,
                  ranges >>

\* console.error('Watch error:', err) and .catch(console.error): the handler
\* touches no state; the first failure of each kind is kept in the history (the
\* mount request settles once, and before the first watch fix, as in InitialFix)
PositionError(kind) ==
  /\ \A f \in failures : f.kind # kind
  /\ kind = "initial" => (currentLocation = Null /\ updates = 0)
  /\ failures' = failures \cup {[kind |-> kind, updates |-> updates,
                                 recording |-> isTracking /\ activeRoute # Null]}
  /\ UNCHANGED << isTracking, activeRoute, isSavingRoute, routeSaveForm, routes,
                  currentLocation, alertInfo, kalmanStateRef, alertedShopsRef,
                  lastStopCheckLocRef, staticTimeCounterRef, isTrackingRef, activeRouteRef,
                  nextId, updates, emitted, enterLatch, dwellStreak, discardedIds,
                  rawFix, stopsAtAnchor, observedInside, rawAccuracy, registry,
                  ranges >>

\* the watch of a run in which the position source fails
FailureWatch(lat, accuracy) ==
  /\ updates < MaxFailureUpdates
  /\ PositionCallback(lat, accuracy)
  /\ UNCHANGED rawAccuracy

NextFailure ==
  \/ \E lat \in InitialFixes : InitialFix(lat)
  \/ \E kind \in FailureKinds : PositionError(kind)
  \/ \E lat \in RawFixes, accuracy \in Accuracies : FailureWatch(lat, accuracy)
  \/ CommitEffects
  \/ SessionToggle

SpecFailure == Init /\ [][NextFailure]_vars


\* ================================================================ claims
\* a step of the watchPosition success callback
IsUpdate == updates' = updates + 1
\* the location the callback of this step worked with
NewLoc == currentLocation'
PathOf(route) == IF route = Null THEN <<>> ELSE route.path
StopsOf(route) == IF route = Null THEN <<>> ELSE route.stops
InSeq(x, seq) == \E n \in 1..Len(seq) : seq[n] = x
\* a route is being recorded
Recording == isTracking /\ activeRoute # Null

\* C1 -- Hysteresis: an update emits an ENTER alert for a shop only at a distance
\* below 40 m and only if the shop was never alerted or a reading above 100 m has
\* been observed since its last ENTER; holding below 40 m or moving in the
\* 40..100 m band never emits; an update below 40 m for a shop that is not
\* latched (never alerted, or a reading above 100 m since) does emit.
C1_Hysteresis ==
  [][IsUpdate =>
       \A i \in 1..Len(shopsRef) :
         LET X == shopsRef[i].id
             dist == calculateDistance(NewLoc, shopsRef[i].location)
             armed == enterLatch[X] \in {"never", "exited"}
         IN /\ InSeq(X, emitted') => (armed /\ dist < EnterRadius)
            /\ (armed /\ dist < EnterRadius) => InSeq(X, emitted')]_vars

\* C1 witness: a shop was alerted, observed above 100 m, and alerted again
C1_Witness == \E X \in ShopIds : enterLatch[X] = "reentered" /\ InSeq(X, emitted)

\* C2 -- Stop emission: an update emits a stop exactly when it is the third
\* consecutive update within 15 m of the dwell anchor since the start or the last
\* reset; the stop is appended with stopNumber = stops.length + 1 at the update's
\* location; the first, second, fourth and later ones emit nothing.
C2_StopEmission ==
  [][IsUpdate =>
       LET old == StopsOf(activeRoute)
           new == StopsOf(activeRoute')
       IN IF Recording /\ dwellStreak' = DwellCount
          THEN /\ Len(new) = Len(old) + 1
               /\ \A n \in 1..Len(old) : new[n] = old[n]
               /\ new[Len(new)].stopNumber = Len(old) + 1
               /\ new[Len(new)].location = NewLoc
          ELSE new = old]_vars

\* C2 witness: a fourth consecutive update within 15 m, and still one stop
C2_Witness ==
  Recording /\ dwellStreak >= DwellCount + 1 /\ Len(activeRoute.stops) = 1
            /\ activeRoute.stops[1].stopNumber = 1

\* C3 -- Path sampling: while Recording an update appends its location to path if
\* and only if its distance to the last point currently in path is >= 3 m.
C3_PathSampling ==
  [][IsUpdate /\ Recording =>
       LET path == activeRoute.path
       IN PathOf(activeRoute') =
            IF calculateDistance(NewLoc, path[Len(path)]) >= PathStep
            THEN Append(path, NewLoc) ELSE path]_vars

\* C4 -- While a route is being recorded no step creates a second route or
\* replaces the active one, and the tracking toggle leaves the active route, the
\* dwell counter and the dwell anchor as they are.
C4_StartOnlyFromIdle ==
  [][isTracking =>
       /\ nextId' = nextId
       /\ (activeRoute # Null /\ activeRoute' # Null) => activeRoute'.id = activeRoute.id
       /\ (isTracking' # isTracking) =>
            UNCHANGED << activeRoute, staticTimeCounterRef, lastStopCheckLocRef >>]_vars

\* C4 witness: the toggle was pressed during a recording that had grown its path
C4_Witness ==
  /\ ~isTracking /\ isSavingRoute /\ activeRoute # Null
  /\ Len(PathOf(activeRoute)) >= 2 /\ nextId = 2

\* C5 -- Cancellation: with tracking stopped and the stopped route still held, an
\* update changes neither the route (path, stops) nor the dwell counter nor the
\* dwell anchor.
C5_Cancellation ==
  [][(IsUpdate /\ ~isTracking /\ activeRoute # Null) =>
       UNCHANGED << activeRoute, staticTimeCounterRef, lastStopCheckLocRef >>]_vars

\* C5 witness: an update arrived after the stop, 15 m or more from the anchor
\* (while recording, the anchor is never that far from the current location)
C5_Witness ==
  /\ ~isTracking /\ activeRoute # Null /\ currentLocation # Null
  /\ calculateDistance(currentLocation, lastStopCheckLocRef) >= DwellRadius

\* C6 -- Serialized processing: the route an update reads for its path-sampling
\* and stop-detection decisions has the path and the stops the previous update
\* left.
C6_Serialized ==
  [][(IsUpdate /\ Recording) =>
       /\ activeRouteRef # Null
       /\ activeRouteRef.path = activeRoute.path
       /\ activeRouteRef.stops = activeRoute.stops]_vars

\* C7 -- finalize: the saved list changes only by a save, which prepends the
\* active route with its path and stops kept, endTime set, isArchived false and
\* the form's day and area labels, and leaves no active route; a route started
\* afterwards has an id that no saved route has.
C7_Finalize ==
  [][/\ (routes' # routes) =>
          /\ activeRoute # Null /\ activeRoute' = Null /\ ~isSavingRoute'
          /\ Len(routes') = Len(routes) + 1
          /\ \A n \in 1..Len(routes) : routes'[n + 1] = routes[n]
          /\ routes'[1].id = activeRoute.id
          /\ routes'[1].path = activeRoute.path
          /\ routes'[1].stops = activeRoute.stops
          /\ routes'[1].endTime # Undefined
          /\ routes'[1].isArchived = FALSE
          /\ routes'[1].day = routeSaveForm.day /\ routeSaveForm.day \in DayLabels
          /\ routes'[1].customAreaName = routeSaveForm.areaName
          /\ routeSaveForm.areaName \in AreaLabels
     /\ (activeRoute' # Null) =>
          \A n \in 1..Len(routes') : routes'[n].id # activeRoute'.id]_vars

\* C7 witness: a recorded route was saved and a later start made a fresh route
C7_Witness ==
  /\ Len(routes) = 1 /\ Len(routes[1].path) >= 2 /\ routes[1].endTime = Now
  /\ isTracking /\ activeRoute # Null /\ activeRoute.id # routes[1].id

\* C8 -- discard: a Discard of an in-progress route leaves no active route, closes
\* the dialog and leaves the saved list as it is; while one route is active the
\* saved list never changes, so after the discard it is the list of the session's
\* start; no discarded route is ever in the saved list.
C8_Discard ==
  [][/\ (discardedIds' # discardedIds) =>
          /\ activeRoute # Null /\ activeRoute' = Null /\ ~isSavingRoute'
          /\ discardedIds' = discardedIds \cup {activeRoute.id}
          /\ routes' = routes
     /\ (activeRoute # Null /\ activeRoute' # Null /\ activeRoute'.id = activeRoute.id)
          => routes' = routes
     /\ \A n \in 1..Len(routes') : routes'[n].id \notin discardedIds']_vars

\* C8 witness: a route with recorded points was discarded, nothing was saved
C8_Witness ==
  /\ activeRoute = Null /\ ~isSavingRoute /\ ~isTracking
  /\ discardedIds = {1} /\ nextId = 2 /\ routes = <<>> /\ staticTimeCounterRef >= 1

\* C9 -- start: a step that starts a route is taken with tracking off and leaves
\* a route with path = [start], no stops, dwell counter 0, dwell anchor = start
\* and tracking on, where start is the current location, or the default
\* coordinate when no location is known.
C9_Start ==
  [][(nextId' # nextId) =>
       LET start == IF currentLocation = Null THEN [lat |-> DefaultLat]
                    ELSE currentLocation
       IN /\ ~isTracking /\ isTracking'
          /\ activeRoute' # Null
          /\ activeRoute'.path = << start >>
          /\ activeRoute'.stops = << >>
          /\ activeRoute'.id = nextId
          /\ staticTimeCounterRef' = 0
          /\ lastStopCheckLocRef' = start]_vars

\* C9 witness: a route started at a known location other than the default one
C9_Witness ==
  /\ isTracking /\ activeRoute # Null /\ currentLocation # Null
  /\ currentLocation.lat # DefaultLat
  /\ activeRoute.path = << currentLocation >> /\ activeRoute.stops = << >>
  /\ staticTimeCounterRef = 0 /\ lastStopCheckLocRef = currentLocation

\* C10 -- An update delivered while no route is being recorded changes neither
\* the active route nor the dwell counter nor the dwell anchor.
C10_NoOpUnlessRecording ==
  [][(IsUpdate /\ ~Recording) =>
       UNCHANGED << activeRoute, staticTimeCounterRef, lastStopCheckLocRef >>]_vars

\* C10 witness: updates were delivered before any route was ever started
C10_Witness ==
  /\ updates >= 2 /\ nextId = 1 /\ activeRoute = Null
  /\ staticTimeCounterRef = 0 /\ lastStopCheckLocRef = Null

\* C11 -- One stop per dwell episode: the dwell counter counts the consecutive
\* updates within 15 m of the anchor and is not reset by a stop, and the active
\* route has exactly one stop more than when the anchor was set if three or more
\* such updates have followed, however many, and none more otherwise.
C11_OneStopPerDwell ==
  activeRoute # Null =>
    /\ staticTimeCounterRef = dwellStreak
    /\ Len(activeRoute.stops) =
         stopsAtAnchor + (IF dwellStreak >= DwellCount THEN 1 ELSE 0)

\* C11 witness: a second stop, emitted after a move of 15 m or more reset the
\* counter and three updates stayed within 15 m of the new anchor
C11_Witness ==
  /\ Recording /\ Len(activeRoute.stops) = 2 /\ stopsAtAnchor = 1
  /\ dwellStreak = DwellCount

\* C12 -- In every reachable state the i-th stop of the active route has
\* stopNumber = i: no gap, no duplicate, strictly increasing.
C12_StopNumbers ==
  \A i \in 1..Len(StopsOf(activeRoute)) : activeRoute.stops[i].stopNumber = i

\* C12 witness: two stops, both emitted before activeRouteRef was refreshed
C12_Witness ==
  /\ activeRoute # Null /\ Len(activeRoute.stops) = 2
  /\ activeRoute.stops[2].stopNumber = 2
  /\ activeRouteRef # Null /\ activeRouteRef.stops = << >>

\* C13 -- While Recording an update leaves the previous path and the previous
\* stops as prefixes of the new ones; what it adds is its own location, at most
\* once to each, at the end.
C13_AppendOnly ==
  [][(IsUpdate /\ Recording) =>
       LET path == activeRoute.path
           stops == activeRoute.stops
           path2 == PathOf(activeRoute')
           stops2 == StopsOf(activeRoute')
       IN /\ Len(path2) \in {Len(path), Len(path) + 1}
          /\ \A n \in 1..Len(path) : path2[n] = path[n]
          /\ Len(path2) > Len(path) => path2[Len(path2)] = NewLoc
          /\ Len(stops2) \in {Len(stops), Len(stops) + 1}
          /\ \A n \in 1..Len(stops) : stops2[n] = stops[n]
          /\ Len(stops2) > Len(stops) => stops2[Len(stops2)].location = NewLoc]_vars

\* C13 witness: a route with three different points in arrival order and a stop
C13_Witness ==
  /\ Recording /\ Len(activeRoute.path) >= 4 /\ Len(activeRoute.stops) >= 1
  /\ activeRoute.path[2] # activeRoute.path[3]
  /\ activeRoute.path[3] # activeRoute.path[4]

\* C14 -- Every shop that an update finds below 40 m and not in alertedShopsRef is
\* added to the set and gets its own ENTER alert, with its name and owner,
\* delivered: the alert the update leaves on screen is that shop's.
C14_EveryEnterDelivered ==
  [][IsUpdate =>
       \A i \in 1..Len(shopsRef) :
         LET shop == shopsRef[i]
         IN (/\ calculateDistance(NewLoc, shop.location) < EnterRadius
             /\ shop.id \notin alertedShopsRef)
            => /\ shop.id \in alertedShopsRef'
               /\ InSeq(shop.id, emitted')
               /\ alertInfo' = [show |-> TRUE, shopName |-> shop.name,
                                ownerName |-> shop.ownerName]]_vars

\* C15 -- Exit rule and hysteresis band: an update that observes a shop of
\* alertedShopsRef above 100 m removes its id and emits nothing for it; an update
\* that observes a shop between 40 m and 100 m, both included, leaves its
\* membership as it was and emits nothing for it.
C15_ExitAndBand ==
  [][IsUpdate =>
       \A i \in 1..Len(shopsRef) :
         LET X == shopsRef[i].id
             dist == calculateDistance(NewLoc, shopsRef[i].location)
         IN /\ (dist > ExitRadius /\ X \in alertedShopsRef) =>
                 (X \notin alertedShopsRef' /\ ~InSeq(X, emitted'))
            /\ (dist >= EnterRadius /\ dist <= ExitRadius) =>
                 /\ (X \in alertedShopsRef') = (X \in alertedShopsRef)
                 /\ ~InSeq(X, emitted')
            /\ emitted' = << >> => alertInfo' = alertInfo]_vars

\* C15 witness: a shop that was alerted, left beyond 100 m and was alerted again
\* is now observed in the band, still in the set, with nothing emitted
C15_Witness ==
  \E i \in 1..Len(shopsRef) :
    /\ enterLatch[shopsRef[i].id] = "reentered"
    /\ shopsRef[i].id \in alertedShopsRef
    /\ currentLocation # Null
    /\ calculateDistance(currentLocation, shopsRef[i].location) >= EnterRadius
    /\ calculateDistance(currentLocation, shopsRef[i].location) <= ExitRadius
    /\ emitted = << >>

\* C16 -- In every reachable state each id of alertedShopsRef belongs to a shop
\* that some update observed below 40 m and no later update observed above
\* 100 m, whatever was done to the registry between the updates.
C16_AlertedSetInvariant == \A X \in alertedShopsRef : observedInside[X]

\* C16 witness: with both shops alerted, the area of s1 was deleted and s2 moved
\* away; the next update observed s2 above 100 m and removed it, and s1, no
\* longer observed, is still in the set
C16_Witness ==
  /\ alertedShopsRef = {"s1"} /\ enterLatch["s2"] = "exited"
  /\ \A i \in 1..Len(shopsRef) : shopsRef[i].id # "s1"
  /\ \E i \in 1..Len(shopsRef) :
       shopsRef[i].id = "s2" /\ shopsRef[i].location # INITIAL_SHOPS[2].location
  /\ currentLocation # Null /\ currentLocation.lat = 0

\* C17 -- alertedShopsRef loses an id only in an update that observes that shop
\* above 100 m; a start, a stop, a save and a discard leave the set as it is.
C17_ClearedOnlyByExit ==
  [][/\ \A X \in alertedShopsRef \ alertedShopsRef' :
          /\ IsUpdate
          /\ \E i \in 1..Len(shopsRef) :
               /\ shopsRef[i].id = X
               /\ calculateDistance(NewLoc, shopsRef[i].location) > ExitRadius
     /\ (\/ nextId' # nextId \/ isTracking' # isTracking
         \/ routes' # routes \/ discardedIds' # discardedIds
         \/ isSavingRoute' # isSavingRoute)
          => alertedShopsRef' = alertedShopsRef]_vars

\* C17 witness: shops alerted by the run's one update are still in the set after
\* a route was started there, stopped and saved and a second one discarded
C17_Witness ==
  /\ alertedShopsRef # {} /\ updates = 1 /\ kalmanStateRef.variance < 0
  /\ Len(routes) = 1 /\ routes[1].path[1] = currentLocation
  /\ discardedIds = {2} /\ ~isTracking /\ activeRoute = Null

\* C20 -- Every start leaves the filter uninitialized (variance < 0), and an
\* update that finds it so returns the raw measurement and leaves a filter state
\* made of that measurement and its accuracy alone.
C20_FilterReset ==
  [][/\ (nextId' # nextId) => kalmanStateRef'.variance < 0
     /\ (IsUpdate /\ kalmanStateRef.variance < 0) =>
          /\ NewLoc = rawFix'
          /\ kalmanStateRef'.lat = rawFix'.lat
          /\ kalmanStateRef'.variance \in
               {a * a * VarUnit : a \in (Accuracies \ {0}) \cup {DefaultAccuracy}}]_vars

\* C20 witness: the second route's first update, with the filter warmed by
\* earlier updates, returned a raw measurement away from the start point
C20_Witness ==
  /\ nextId = 3 /\ isTracking /\ activeRoute # Null /\ updates >= 3
  /\ currentLocation = rawFix
  /\ kalmanStateRef.variance = DefaultAccuracy * DefaultAccuracy * VarUnit
  /\ Len(activeRoute.path) = 2 /\ activeRoute.path[2] = rawFix
  /\ calculateDistance(activeRoute.path[1], rawFix) \notin {0, 150}

\* the distance of the i-th active shop, and the active shops within a radius
DistanceOf(i) == calculateDistance(currentLocation, activeShops[i].location)
Within(range) ==
  IF currentLocation = Null THEN {}
  ELSE {i \in 1..Len(activeShops) : DistanceOf(i) <= range}

\* C18 -- atShop is a shop if and only if some active shop is within
\* detectionRange (<=) of the location; it is then a shop of minimum distance among
\* those, the first of them in registry order when distances tie; with an empty
\* registry it is none.
C18_AtShop ==
  /\ (atShop # NoShop) <=> (Within(detectionRange) # {})
  /\ Within(detectionRange) # {} =>
       \E i \in Within(detectionRange) :
         /\ \A j \in Within(detectionRange) :
              DistanceOf(i) < DistanceOf(j) \/ (DistanceOf(i) = DistanceOf(j) /\ i <= j)
         /\ atShop.id = activeShops[i].id
         /\ atShop.name = activeShops[i].name
         /\ atShop.location = activeShops[i].location
         /\ atShop.distance = DistanceOf(i)
  /\ Len(activeShops) = 0 => atShop = NoShop

\* C18 witness: two shops in range at the same, minimum distance and a third one
\* out of range; atShop is the first of the two in registry order
C18_Witness ==
  /\ atShop # NoShop
  /\ \E i, j \in Within(detectionRange) :
       /\ i < j /\ DistanceOf(i) = DistanceOf(j)
       /\ \A m \in Within(detectionRange) : DistanceOf(m) >= DistanceOf(i)
       /\ atShop.id = activeShops[i].id
  /\ \E k \in 1..Len(activeShops) : k \notin Within(detectionRange)

\* C19 -- nearbyShops holds exactly the active shops within nearbyRange (<=) of
\* the location, each once, in non-decreasing order of distance; it is empty when
\* none is within the radius or the registry is empty.
C19_NearbyShops ==
  /\ Len(nearbyShops) = Cardinality(Within(nearbyRange))
  /\ \A i \in Within(nearbyRange) :
       \E n \in 1..Len(nearbyShops) :
         /\ nearbyShops[n].id = activeShops[i].id
         /\ nearbyShops[n].location = activeShops[i].location
         /\ nearbyShops[n].distance = DistanceOf(i)
  /\ \A n \in 1..Len(nearbyShops) :
       \E i \in Within(nearbyRange) : nearbyShops[n].id = activeShops[i].id
  /\ \A m, n \in 1..Len(nearbyShops) :
       /\ m < n => nearbyShops[m].distance <= nearbyShops[n].distance
       /\ m # n => nearbyShops[m].id # nearbyShops[n].id

\* C19 witness: three shops within the radius, listed nearest first against
\* their registry order
C19_Witness ==
  /\ Len(activeShops) = 3 /\ Len(nearbyShops) = 3
  /\ nearbyShops[1].distance < nearbyShops[2].distance
  /\ nearbyShops[2].distance < nearbyShops[3].distance
  /\ nearbyShops[1].id = activeShops[3].id

\* C28 -- In every reachable state tracking on implies that an active route
\* exists, and an open save dialog implies that tracking is off.
C28_TrackingDialogExclusive ==
  /\ isTracking => activeRoute # Null
  /\ isSavingRoute => ~isTracking

\* C29 -- A route that has been stopped and is waiting in the save dialog stays
\* the active route, unchanged, in every step that neither saves nor discards it.
C29_StoppedRouteRetained ==
  [][(~isTracking /\ isSavingRoute /\ activeRoute # Null) =>
       \/ activeRoute' = activeRoute
       \/ (routes' # routes /\ routes'[1].id = activeRoute.id)
       \/ activeRoute.id \in discardedIds']_vars

\* C30 -- The saved list changes only by a save of the active route, which
\* prepends one route with that route's id and leaves no active route; nothing
\* is added when there is no active route; the saved routes keep their content
\* and order in every step, and no two of them have the same id.
C30_OneEntryPerSession ==
  [][/\ (routes' # routes) =>
          /\ activeRoute # Null /\ activeRoute' = Null
          /\ routes' = << routes'[1] >> \o routes
          /\ routes'[1].id = activeRoute.id
     /\ (activeRoute = Null) => routes' = routes
     /\ Len(routes') >= Len(routes)
     /\ \A n \in 1..Len(routes) : routes'[n + Len(routes') - Len(routes)] = routes[n]
     /\ \A m, n \in 1..Len(routes') :
          m # n => routes'[m].id # routes'[n].id]_vars

\* C30 witness: one route is saved and the dialog is open again, its form filled,
\* with no active route: the submit finds nothing to save
C30_Witness ==
  /\ Len(routes) = 1 /\ isSavingRoute /\ activeRoute = Null
  /\ routeSaveForm.day # "" /\ routeSaveForm.areaName # ""

\* C25 -- Dwell step: every update processed while Recording, whether or not
\* its location was appended to the path, either is less than 15 m from the
\* dwell anchor and then adds one to the dwell counter and leaves the anchor, or
\* else sets the counter to 0 and the anchor to the update's location.
C25_DwellStep ==
  [][(IsUpdate /\ Recording) =>
       IF calculateDistance(NewLoc, lastStopCheckLocRef) < DwellRadius
       THEN /\ staticTimeCounterRef' = staticTimeCounterRef + 1
            /\ lastStopCheckLocRef' = lastStopCheckLocRef
       ELSE /\ staticTimeCounterRef' = 0
            /\ lastStopCheckLocRef' = NewLoc]_vars

\* C25 witness: the anchor was moved by a reset, and the update after it was
\* counted although its location was not appended to the path
C25_Witness ==
  /\ Recording /\ staticTimeCounterRef >= 1
  /\ lastStopCheckLocRef # activeRoute.path[1]
  /\ currentLocation # activeRoute.path[Len(activeRoute.path)]

\* C24 -- Position failures never abort a session: a watch error or a failed
\* single-shot fix leaves the recording flag, the active route, the dwell
\* counter, the dwell anchor and alertedShopsRef as they are, the updates after
\* it are still processed for the route, and a start with no fix begins the path
\* at the last known location, or at the default coordinate when there is none.
C24_FailuresNeverAbort ==
  [][/\ (failures' # failures) =>
          UNCHANGED << isTracking, activeRoute, isSavingRoute, staticTimeCounterRef,
                       lastStopCheckLocRef, alertedShopsRef, currentLocation, routes >>
     /\ (IsUpdate /\ Recording /\ failures # {}) =>
          /\ isTracking' /\ activeRoute' # Null
          /\ << staticTimeCounterRef', lastStopCheckLocRef' >>
               # << staticTimeCounterRef, lastStopCheckLocRef >>
     /\ (nextId' # nextId) =>
          /\ isTracking'
          /\ activeRoute'.path =
               << IF currentLocation # Null THEN currentLocation
                  ELSE [lat |-> DefaultLat] >>]_vars

\* C24 witness: the mount request failed and the route started at the default
\* coordinate; a watch error was reported while recording, and an update after
\* it added a point to the path
C24_Witness ==
  /\ Recording /\ Len(activeRoute.path) >= 2
  /\ activeRoute.path[1] = [lat |-> DefaultLat]
  /\ \E f \in failures : f.kind = "initial"
  /\ \E f \in failures : f.kind = "watch" /\ f.recording /\ f.updates < updates

\* the accuracy the callback of this step passed to the filter
PassedAccuracy == EffectiveAccuracy(rawAccuracy'.accuracy)

\* C21 -- First-sample passthrough: an update of an uninitialized filter returns
\* exactly the measurement, stores it as the state and sets the variance to the
\* square of the accuracy; every later update returns the stored state moved
\* toward the measurement by gain = variance / (variance + accuracy squared),
\* the variance being the stored one plus the process noise, and stores what it
\* returns.
C21_Passthrough ==
  [][IsUpdate =>
       LET r == PassedAccuracy * PassedAccuracy * VarUnit
           v == kalmanStateRef.variance + ProcessNoise
           gain == v \div ((v + r) \div GainUnit)
           moved == NewLoc.lat - kalmanStateRef.lat
           offset == rawFix'.lat - kalmanStateRef.lat
       IN IF kalmanStateRef.variance < 0
          THEN /\ NewLoc = rawFix'
               /\ kalmanStateRef' = [lat |-> rawFix'.lat, variance |-> r]
          ELSE /\ kalmanStateRef'.lat = NewLoc.lat
               /\ gain >= 0 /\ gain <= GainUnit
               /\ GainUnit * moved - gain * offset < GainUnit
               /\ gain * offset - GainUnit * moved < GainUnit
               /\ (offset >= 0) => (moved >= 0 /\ moved <= offset)
               /\ (offset <= 0) => (moved <= 0 /\ moved >= offset)]_vars

\* C21 witness: after a first fix taken as it came, a fix of accuracy 20 m moved
\* the state part of the way to the measurement
C21_Witness ==
  /\ updates >= 2 /\ kalmanStateRef.variance >= 0
  /\ rawAccuracy.accuracy = 20
  /\ currentLocation.lat = kalmanStateRef.lat
  /\ currentLocation.lat > 0 /\ currentLocation.lat < 150

C27_ZeroAccuracyFloor ==
  [][(IsUpdate /\ rawAccuracy'.accuracy = 0) =>
       /\ kalmanStateRef'.variance > 0
       /\ kalmanStateRef'.variance < VarUnit]_vars

\* C23 -- RangeConfig: in every reachable state, after a setting of either
\* radius to any position asked of its slider and after a load of the persisted
\* settings, detectionRange is in [1, 50] and nearbyRange is in [10, 500]; the
\* defaults are 1 and 20.
C23_RangesClamped ==
  /\ detectionRange >= DetectionMin /\ detectionRange <= DetectionMax
  /\ nearbyRange >= NearbyMin /\ nearbyRange <= NearbyMax
  /\ LoadRange(<< >>, DefaultDetectionRange) = 1
  /\ LoadRange(<< >>, DefaultNearbyRange) = 20

\* C23 witness: both radii were set away from their defaults, the detection
\* radius to the upper end and the nearby radius to the lower end, and the page
\* was loaded again after a position update
C23_Witness ==
  /\ detectionRange = DetectionMax /\ nearbyRange = NearbyMin
  /\ updates > 0 /\ currentLocation = Null

====
